---- MODULE Spec2Model ----
(***************************************************************************)
(* wpplugin.py: search the WordPress plugin directory, let the user pick   *)
(* one result from a paginated list, render a link, copy it to the         *)
(* clipboard.                                                              *)
(*                                                                         *)
(* Strings are sequences of one-character strings.  A string literal of    *)
(* the program that is only ever concatenated (a diagnostic, the prompt    *)
(* lines, the link's fixed parts) is kept as one element.  Characters      *)
(* outside ASCII are written by their code point ("U+226A").               *)
(***************************************************************************)
EXTENDS Integers, Sequences, FiniteSets

\* ------------------------------------------------------------------ bounds

\* Longest plugins list a reply carries.
MaxPlugins == 31
\* Largest value of let_user_select's local `passes` the model follows.
MaxPasses == 5
\* Longest command-line argument.
MaxArgLen == 2

\* ------------------------------------------------- str methods and builtins

\* The characters str.strip() removes: those for which str.isspace() holds.
\* The control characters TLA+ has no escape for are written by code point.
Whitespace ==
    {" ", "\t", "\n", "\r", "\f", "U+000B", "U+001C", "U+001D", "U+001E",
     "U+001F", "U+0085", "U+00A0", "U+1680", "U+2000", "U+2001", "U+2002",
     "U+2003", "U+2004", "U+2005", "U+2006", "U+2007", "U+2008", "U+2009",
     "U+200A", "U+2028", "U+2029", "U+202F", "U+205F", "U+3000"}

RECURSIVE lstrip(_)
lstrip(s) ==
    IF s # <<>> /\ Head(s) \in Whitespace THEN lstrip(Tail(s)) ELSE s

RECURSIVE rstrip(_)
rstrip(s) ==
    IF s # <<>> /\ s[Len(s)] \in Whitespace
    THEN rstrip(SubSeq(s, 1, Len(s) - 1))
    ELSE s

\* str.strip()
strip(s) == rstrip(lstrip(s))

\* str.lower(), on the letters the model's arguments are made of
lower_char(c) ==
    CASE c = "A" -> "a"
      [] c = "B" -> "b"
      [] OTHER -> c

lower(s) == [i \in 1..Len(s) |-> lower_char(s[i])]

DecimalDigits == <<"0", "1", "2", "3", "4", "5", "6", "7", "8", "9">>

\* Characters str.isdigit() accepts: the decimal digits and, among others,
\* SUPERSCRIPT TWO (U+00B2), which int() does not accept.
DigitChars == {DecimalDigits[i] : i \in 1..10} \cup {"U+00B2"}

\* str.isdigit(): non-empty and every character a digit
isdigit(s) == s # <<>> /\ \A i \in 1..Len(s) : s[i] \in DigitChars

\* whether int(s) returns (it raises ValueError otherwise); s is stripped
int_accepts(s) ==
    s # <<>> /\ \A i \in 1..Len(s) : \E d \in 1..10 : s[i] = DecimalDigits[d]

digit_value(c) == (CHOOSE d \in 1..10 : DecimalDigits[d] = c) - 1

\* int(s) for a string of decimal digits
RECURSIVE int(_)
int(s) ==
    IF s = <<>> THEN 0
    ELSE int(SubSeq(s, 1, Len(s) - 1)) * 10 + digit_value(s[Len(s)])

\* str(n) for n >= 0
RECURSIVE str(_)
str(n) ==
    IF n < 10 THEN <<DecimalDigits[n + 1]>>
    ELSE str(n \div 10) \o <<DecimalDigits[(n % 10) + 1]>>

\* the format spec {i:>2}: right-aligned in a field of width 2
format_width2(i) == IF Len(str(i)) < 2 THEN <<" ">> \o str(i) ELSE str(i)

\* ------------------------------------------------------------ html.unescape

\* The characters the charref pattern of html.unescape excludes from an
\* entity name: [^\t\n\f <&#;]
NotNameChars == {"\t", "\n", "\f", " ", "<", "&", "#", ";"}

\* The named references of html.entities.html5 that can be written with the
\* characters of the model's plugin names (W, l, t, ;).
html5_keys == {<<"l", "t">>, <<"l", "t", ";">>, <<"l", "l", ";">>}

html5(k) == IF k = <<"l", "l", ";">> THEN <<"U+226A">> ELSE <<"<">>

\* number of leading entity-name characters of s, at most 32 (the {1,32})
RECURSIVE name_run(_, _)
name_run(s, n) ==
    IF s = <<>> \/ n = 32 \/ Head(s) \in NotNameChars THEN n
    ELSE name_run(Tail(s), n + 1)

\* the longest proper prefix of s, of length x down to 2, that is a named
\* reference: for x in range(len(s)-1, 1, -1): if s[:x] in html5
RECURSIVE prefix_ref(_, _)
prefix_ref(s, x) ==
    IF x < 2 THEN <<"&">> \o s
    ELSE IF SubSeq(s, 1, x) \in html5_keys
         THEN html5(SubSeq(s, 1, x)) \o SubSeq(s, x + 1, Len(s))
         ELSE prefix_ref(s, x - 1)

\* html._replace_charref, the branch of a named reference (s[0] != '#')
replace_charref(s) ==
    IF s \in html5_keys THEN html5(s) ELSE prefix_ref(s, Len(s) - 1)

\* html.unescape(s): every leftmost match of &name;? is replaced
RECURSIVE unescape(_)
unescape(s) ==
    IF s = <<>> THEN <<>>
    ELSE IF Head(s) # "&" THEN <<Head(s)>> \o unescape(Tail(s))
    ELSE LET n == name_run(Tail(s), 0)
             m == IF Len(s) >= n + 2 /\ s[n + 2] = ";" THEN n + 1 ELSE n
         IN  IF n = 0 THEN <<"&">> \o unescape(Tail(s))
             ELSE replace_charref(SubSeq(s, 2, m + 1))
                      \o unescape(SubSeq(s, m + 2, Len(s)))

\* ------------------------------------------------------- config and replies

\* config["pluginurl"]
pluginurl == "https://de.wordpress.org/plugins/"

Ws(n) == [i \in 1..n |-> "W"]

\* Plugin names a reply may carry, HTML-entity-encoded as the API sends them:
\* entities with and without the closing semicolon, a doubly encoded one, a
\* bare ampersand, a name of exactly 60 characters and one of 63 whose
\* entity straddles the 60th character.
NamePool ==
    << <<"W">>,
       <<"&", "l", "t", ";">>,
       <<"W", "l", "&", "l", "t">>,
       <<"&", "l", "l", ";", "t">>,
       <<"&", "l", ";", "&">>,
       <<"&", "l", "t", "l", "l">>,
       <<"&", "l", "t", ";", "l", "t", ";">>,
       <<"l", " ", "&", "l", "t", "W">>,
       Ws(57) \o <<"&", "l", "t">>,
       Ws(58) \o <<"&", "l", "t", ";", "W">> >>

\* the plugins list of n records; record i is {"name": ..., "slug": "p<i>"}
PluginList(n) ==
    [i \in 1..n |->
        [name |-> NamePool[((i - 1) % Len(NamePool)) + 1],
         slug |-> <<"p">> \o str(i)]]

\* A decoded JSON body: a dict with a "plugins" key, or one without it.
NoResponse == [has_plugins |-> FALSE, plugins |-> <<>>]

JsonBodies ==
    {[has_plugins |-> TRUE, plugins |-> PluginList(n)] : n \in 0..MaxPlugins}
        \cup {NoResponse}

\* ---------------------------------------------------------- pure functions

\* jsonlist["plugins"][start:stop] for 0 <= start, 0 <= stop
slice(plugins, start, stop) ==
    SubSeq(plugins, start + 1, IF stop < Len(plugins) THEN stop ELSE Len(plugins))

Ellipsis == <<" ", "U+00E2", "U+20AC", "U+00A6">>

\* one line of the listing: the body of list_plugins' loop
list_line(i, plugin) ==
    IF Len(plugin.name) > 60
    THEN format_width2(i) \o <<" ">> \o unescape(SubSeq(plugin.name, 1, 60))
             \o Ellipsis \o <<"\n">>
    ELSE format_width2(i) \o <<" ">> \o unescape(plugin.name) \o <<"\n">>

RECURSIVE list_lines(_, _)
list_lines(i, plugins) ==
    IF plugins = <<>> THEN <<>>
    ELSE list_line(i, Head(plugins)) \o list_lines(i + 1, Tail(plugins))

\* list_plugins counting from i = start
list_plugins_zero_based(jsonlist, start, stop) ==
    <<"\n">> \o list_lines(start, slice(jsonlist.plugins, start, stop))

list_plugins(jsonlist, start, stop) ==
    <<"\n">> \o list_lines(start + 1, slice(jsonlist.plugins, start, stop))

PromptHead == "   Enter plugin number or just press enter for first match.\n"
PromptNext == "   Enter [n] for next 10 plugins, enter [q] to abort.\n\n"
PromptQuit == "   Enter [q] to abort.\n\n"

ask_user_prompt(passes) ==
    IF passes < 3 THEN <<PromptHead, PromptNext>> ELSE <<PromptHead, PromptQuit>>

\* response_dict["plugins"][selection] returns for -len <= selection < len
\* (a negative index counts from the end) and raises IndexError otherwise
index_ok(plugins, selection) ==
    -Len(plugins) <= selection /\ selection < Len(plugins)

getitem(plugins, selection) ==
    IF selection >= 0 THEN plugins[selection + 1]
    ELSE plugins[Len(plugins) + selection + 1]

\* render_link without html.unescape
render_link_raw(response_dict, selection) ==
    LET selected == getitem(response_dict.plugins, selection)
    IN  <<"<a href=\"", pluginurl>> \o selected.slug \o <<"/\">", "<b>">>
            \o selected.name \o <<"</b>", "</a>">>

render_link(response_dict, selection) ==
    LET selected == getitem(response_dict.plugins, selection)
        slug == selected.slug
        name == unescape(selected.name)
        url == pluginurl
    IN  <<"<a href=\"", url>> \o slug \o <<"/\">", "<b>">> \o name \o <<"</b>", "</a>">>

\* ------------------------------------------------------------- environment

ArgChars == {"A", "b", " "}

RECURSIVE Strings(_, _)
Strings(chars, n) ==
    IF n = 0 THEN {<<>>}
    ELSE LET shorter == Strings(chars, n - 1)
         IN  shorter \cup {Append(t, c) : t \in shorter, c \in chars}

ArgStrings == Strings(ArgChars, MaxArgLen)

VersionFlag == <<"-", "v">>
HelpFlag == <<"-", "h">>
DefaultArg == <<"A", "b">>

\* sys.argv[1:]: nothing, one plugin name, a flag, or two positionals
ArgVectors ==
    {<<>>, <<VersionFlag>>, <<HelpFlag>>, <<DefaultArg, DefaultArg>>}
        \cup {<<a>> : a \in ArgStrings}

\* What requests.get / raise_for_status / response.json() do in this run.
FailureKinds == {"HTTPError", "ConnectionError", "Timeout", "RequestException"}

Replies ==
    {[kind |-> k, json |-> NoResponse] : k \in FailureKinds \cup {"JSONDecodeError"}}
        \cup {[kind |-> "ok", json |-> b] : b \in JsonBodies}

SmallReplies ==
    {r \in Replies : r.kind # "ok" \/ Len(r.json.plugins) \in {0, 1, 12}}

\* Lines the user may type at a prompt, some with surrounding whitespace
\* other than blanks (a carriage return of a CRLF line, a form feed, a
\* no-break space).
Inputs ==
    {<<>>, <<" ">>, <<"n">>, <<" ", "n", " ">>, <<"q">>, <<"x">>, <<"N">>,
     <<"U+00B2">>, <<"0", "1">>, <<"n", "\r">>, <<"\f", "2", "\r">>,
     <<"U+00A0", "q", "U+3000">>}
        \cup {str(k) : k \in 0..(MaxPlugins + 1)}

Diagnostic(kind) ==
    CASE kind = "HTTPError" -> <<"HTTP Error">>
      [] kind = "ConnectionError" -> <<"Error Connecting">>
      [] kind = "Timeout" -> <<"Timeout Error">>
      [] OTHER -> <<"OOps: Something Else">>

UsageError == <<"usage: wpplugin [-h] [-v] name\n", "wpplugin: error: ">>
VersionText == <<"wpplugin 0.3.0\n">>
HelpText == <<"usage: wpplugin [-h] [-v] name\n", "help">>
InvalidNotice == <<"Invalid input, please try again. \n">>
AbortNotice == <<"Script aborted">>

\* -------------------------------------------------------------------- state

VARIABLES
    pc,             \* where main() is: the function about to run, "prompt"
                    \* (blocked in input()), or "exit"
    argv,           \* the command-line arguments
    reply,          \* what the server answers in this run
    pluginname,     \* main's pluginname
    search_param,   \* config["params"]["request[search]"]
    gets,           \* HTTP GETs issued
    wp_request,     \* main's wp_request: the decoded JSON body
    howmany,        \* let_user_select's locals
    passes,
    start,
    stop,
    typed,          \* the line input() returned last
    prompt,         \* the prompt shown last
    page,           \* what list_plugins returned last
    selected_plugin_number,
    link,           \* main's link
    clipboard,      \* what pyperclip.copy put on the clipboard
    printed,        \* the texts the last step wrote to stdout or stderr
    raised,         \* the uncaught exception that ended the run, or ""
    exit_status,    \* the process's exit status once pc = "exit"
    n_count,        \* history: how many times "n" was entered
    only_n          \* history: every input so far was "n"

vars ==
    <<pc, argv, reply, pluginname, search_param, gets, wp_request, howmany,
      passes, start, stop, typed, prompt, page, selected_plugin_number, link,
      clipboard, printed, raised, exit_status, n_count, only_n>>

selector_vars == <<howmany, passes, start, stop, typed, prompt, page, n_count, only_n>>
request_vars == <<pluginname, search_param, gets, wp_request>>
output_vars == <<selected_plugin_number, link, clipboard>>

\* an unset int local
NoNumber == 0 - 1

\* A run is fixed by its command line and by what the server answers.  The
\* search term does not reach the handling of the reply (request_plugins
\* returns response.json() whatever it was), so the runs vary the command
\* line against a few replies, and the replies against one command line.
Init ==
    /\ pc = "validate_arguments"
    /\ argv \in ArgVectors
    /\ reply \in Replies
    /\ (argv = <<DefaultArg>> \/ reply \in SmallReplies)
    /\ pluginname = <<>>
    /\ search_param = <<>>
    /\ gets = 0
    /\ wp_request = NoResponse
    /\ howmany = 0
    /\ passes = 0
    /\ start = 0
    /\ stop = 0
    /\ typed = <<>>
    /\ prompt = <<>>
    /\ page = <<>>
    /\ selected_plugin_number = NoNumber
    /\ link = <<>>
    /\ clipboard = <<>>
    /\ printed = <<>>
    /\ raised = ""
    /\ exit_status = NoNumber
    /\ n_count = 0
    /\ only_n = TRUE

\* sys.exit(status) after print(text)
Exit(status, text) ==
    /\ pc' = "exit"
    /\ exit_status' = status
    /\ printed' = <<text>>
    /\ raised' = ""

\* an exception nothing catches: the traceback goes to stderr, status 1
Raise(exception) ==
    /\ pc' = "exit"
    /\ exit_status' = 1
    /\ printed' = << <<"Traceback", exception>> >>
    /\ raised' = exception

IsFlag(a) == a = VersionFlag \/ a = HelpFlag

\* validate_arguments with nargs="?": a missing name is accepted as None,
\* and args.name[0] raises TypeError
validate_arguments_optional ==
    /\ pc = "validate_arguments"
    /\ IF \E i \in 1..Len(argv) : IsFlag(argv[i])
       THEN /\ Exit(0, IF argv[1] = VersionFlag THEN VersionText ELSE HelpText)
            /\ UNCHANGED pluginname
       ELSE IF Len(argv) = 0
       THEN /\ Raise("TypeError")
            /\ UNCHANGED pluginname
       ELSE IF Len(argv) > 1
       THEN /\ Exit(2, UsageError)
            /\ UNCHANGED pluginname
       ELSE /\ pluginname' = lower(argv[1])
            /\ pc' = "request_plugins"
            /\ UNCHANGED <<printed, raised, exit_status>>
    /\ UNCHANGED <<argv, reply, search_param, gets, wp_request>>
    /\ UNCHANGED selector_vars
    /\ UNCHANGED output_vars

\* ArgumentParser.parse_args: a flag prints and exits 0; anything but exactly
\* one positional is a usage error, which exits 2
validate_arguments ==
    /\ pc = "validate_arguments"
    /\ IF \E i \in 1..Len(argv) : IsFlag(argv[i])
       THEN LET first == CHOOSE i \in 1..Len(argv) :
                            IsFlag(argv[i]) /\ \A j \in 1..(i - 1) : ~IsFlag(argv[j])
            IN  /\ Exit(0, IF argv[first] = VersionFlag THEN VersionText ELSE HelpText)
                /\ UNCHANGED pluginname
       ELSE IF Len(argv) # 1
       THEN /\ Exit(2, UsageError)
            /\ UNCHANGED pluginname
       ELSE /\ pluginname' = lower(argv[1])
            /\ pc' = "request_plugins"
            /\ UNCHANGED <<printed, raised, exit_status>>
    /\ UNCHANGED <<argv, reply, search_param, gets, wp_request>>
    /\ UNCHANGED selector_vars
    /\ UNCHANGED output_vars

request_plugins ==
    /\ pc = "request_plugins"
    /\ search_param' = pluginname
    /\ gets' = gets + 1
    /\ IF reply.kind \in FailureKinds
       THEN /\ Exit(1, Diagnostic(reply.kind))
            /\ UNCHANGED wp_request
       ELSE IF reply.kind = "JSONDecodeError"
       THEN /\ Raise("JSONDecodeError")
            /\ UNCHANGED wp_request
       ELSE /\ wp_request' = reply.json
            /\ pc' = "let_user_select"
            /\ UNCHANGED <<printed, raised, exit_status>>
    /\ UNCHANGED <<argv, reply, pluginname>>
    /\ UNCHANGED selector_vars
    /\ UNCHANGED output_vars

\* is_valid_number with the lower bound off by one: 0 <= int(user_input)
is_valid_number_from_zero(user_input, total) ==
    isdigit(user_input) /\ 0 <= int(user_input) /\ int(user_input) <= total

\* line 149: user_input.isdigit() and 1 <= int(user_input) <= howmany
is_valid_number(user_input, total) ==
    isdigit(user_input) /\ 1 <= int(user_input) /\ int(user_input) <= total

\* window_start without the - 1: the page after the next one
window_start_skips(p) == p * 10

\* lines 146-147: the slice "n" displays once passes has been incremented
window_start(p) == (p - 1) * 10
window_stop(p) == window_start(p) + 10

\* lines 138-139
first_passes(total) == IF total < 11 THEN 3 ELSE 1

\* lines 134-143: print the first page, then block in input(prompt)
let_user_select ==
    /\ pc = "let_user_select"
    /\ IF ~wp_request.has_plugins
       THEN /\ Raise("KeyError")
            /\ UNCHANGED <<howmany, passes, prompt, page>>
       ELSE /\ howmany' = Len(wp_request.plugins)
            /\ page' = list_plugins(wp_request, 0, 10)
            /\ passes' = first_passes(howmany')
            /\ prompt' = ask_user_prompt(passes')
            /\ printed' = <<page', prompt'>>
            /\ pc' = "prompt"
            /\ UNCHANGED <<raised, exit_status>>
    /\ UNCHANGED <<argv, reply, start, stop, typed, n_count, only_n>>
    /\ UNCHANGED request_vars
    /\ UNCHANGED output_vars

\* abort with sys.exit(0)
abort_status_zero == Exit(0, AbortNotice)

\* lines 158-159
abort == Exit(1, AbortNotice)

\* lines 143-161, and 142-143 of the next iteration: one line is read and
\* handled; unless the loop ends, the next prompt is shown
let_user_select_loop ==
    /\ pc = "prompt"
    /\ \E line \in Inputs :
        LET user_input == strip(line)
            p == passes + 1
        IN  /\ typed' = line
            /\ passes' = p
            /\ start' = window_start(p)
            /\ stop' = window_stop(p)
            /\ only_n' = (only_n /\ user_input = <<"n">>)
            /\ n_count' = IF user_input = <<"n">> THEN n_count + 1 ELSE n_count
            /\ IF isdigit(user_input) /\ ~int_accepts(user_input)
               THEN /\ Raise("ValueError")
                    /\ UNCHANGED <<prompt, page, selected_plugin_number>>
               ELSE IF is_valid_number(user_input, howmany)
               THEN /\ selected_plugin_number' = int(user_input) - 1
                    /\ pc' = "render_link"
                    /\ UNCHANGED <<prompt, page, printed, raised, exit_status>>
               ELSE IF user_input = <<>>
               THEN /\ selected_plugin_number' = 1 - 1
                    /\ pc' = "render_link"
                    /\ UNCHANGED <<prompt, page, printed, raised, exit_status>>
               ELSE IF user_input = <<"n">>
               THEN /\ p <= MaxPasses
                    /\ page' = list_plugins(wp_request, start', stop')
                    /\ prompt' = ask_user_prompt(p)
                    /\ printed' = <<page', prompt'>>
                    /\ UNCHANGED <<pc, selected_plugin_number, raised, exit_status>>
               ELSE IF user_input = <<"q">>
               THEN /\ abort
                    /\ UNCHANGED <<prompt, page, selected_plugin_number>>
               ELSE /\ p <= MaxPasses
                    /\ prompt' = ask_user_prompt(p)
                    /\ printed' = <<InvalidNotice, prompt'>>
                    /\ UNCHANGED <<pc, page, selected_plugin_number, raised, exit_status>>
    /\ UNCHANGED <<argv, reply, howmany, link, clipboard>>
    /\ UNCHANGED request_vars

\* main, line 50
main_render_link ==
    /\ pc = "render_link"
    /\ IF index_ok(wp_request.plugins, selected_plugin_number)
       THEN /\ link' = render_link(wp_request, selected_plugin_number)
            /\ pc' = "copy"
            /\ UNCHANGED <<printed, raised, exit_status>>
       ELSE /\ Raise("IndexError")
            /\ UNCHANGED link
    /\ UNCHANGED <<argv, reply, selected_plugin_number, clipboard>>
    /\ UNCHANGED request_vars
    /\ UNCHANGED selector_vars

\* main, lines 53-57: pyperclip.copy succeeds or raises PyperclipException
main_copy ==
    /\ pc = "copy"
    /\ \E copied \in BOOLEAN :
        IF copied
        THEN /\ clipboard' = link
             /\ Exit(0, <<"Copied to your clipboard:\n">> \o link)
        ELSE /\ UNCHANGED clipboard
             /\ Exit(0, <<"Copy:\n\n">> \o link \o <<"\n">>)
    /\ UNCHANGED <<argv, reply, selected_plugin_number, link>>
    /\ UNCHANGED request_vars
    /\ UNCHANGED selector_vars

Next ==
    \/ validate_arguments
    \/ request_plugins
    \/ let_user_select
    \/ let_user_select_loop
    \/ main_render_link
    \/ main_copy

Spec == Init /\ [][Next]_vars

\* ===================================================================== claims

\* What CPython's html.unescape returns for each name of NamePool.
DecodedPool ==
    << <<"W">>,
       <<"<">>,
       <<"W", "l", "<">>,
       <<"U+226A", "t">>,
       <<"&", "l", ";", "&">>,
       <<"<", "l", "l">>,
       <<"<", "l", "t", ";">>,
       <<"l", " ", "<", "W">>,
       Ws(57) \o <<"<">>,
       Ws(58) \o <<"<", "W">> >>

\* What the listing shows for each name of NamePool: the decoded name, or for
\* the 63-character name its first 60 characters and the ellipsis.
DisplayPool ==
    [k \in 1..Len(DecodedPool) |->
        IF k = 10 THEN Ws(58) \o <<"&", "l">> \o Ellipsis ELSE DecodedPool[k]]

PoolIndex(entry) == ((entry - 1) % Len(NamePool)) + 1

\* The lines of a listing: the text after its leading newline, cut at each
\* newline.
Lines(text) ==
    LET ends == {i \in 2..Len(text) : text[i] = "\n"}
        end(k) == CHOOSE i \in ends : Cardinality({j \in ends : j <= i}) = k
        begin(k) == IF k = 1 THEN 2 ELSE end(k - 1) + 1
    IN  [k \in 1..Cardinality(ends) |-> SubSeq(text, begin(k), end(k) - 1)]

\* A line is <ordinal field> <space> <name>: the ordinal field ends at the
\* first space that follows a digit.
FieldEnd(line) ==
    CHOOSE i \in 1..Len(line) :
        /\ line[i] = " "
        /\ i > 1
        /\ line[i - 1] # " "
        /\ \A j \in 2..(i - 1) : ~(line[j] = " " /\ line[j - 1] # " ")

OrdinalField(line) == SubSeq(line, 1, FieldEnd(line) - 1)
NameField(line) == SubSeq(line, FieldEnd(line) + 1, Len(line))

Min(a, b) == IF a < b THEN a ELSE b
Max(a, b) == IF a > b THEN a ELSE b

\* The listing `text` of list[first:last] has one line per existing entry,
\* in order, each with the entry's 1-based number, right-aligned to width 2,
\* and the entry's displayed name; typing the number selects that entry.
ListingOf(text, plugins, first, last) ==
    LET count == Max(0, Min(last, Len(plugins)) - first)
        lines == Lines(text)
    IN  /\ Head(text) = "\n"
        /\ text[Len(text)] = "\n"
        /\ Len(lines) = count
        /\ \A j \in 1..count :
            /\ Len(OrdinalField(lines[j])) >= 2
            /\ strip(OrdinalField(lines[j])) = str(first + j)
            /\ NameField(lines[j]) = DisplayPool[PoolIndex(first + j)]
            /\ is_valid_number(strip(OrdinalField(lines[j])), Len(plugins))
            /\ int(strip(OrdinalField(lines[j]))) - 1 = first + j - 1

InSelector == pc = "prompt" /\ wp_request.has_plugins

\* at least one line has been read at a prompt
LineRead == wp_request.has_plugins /\ passes > first_passes(howmany)

OffersNext(text) == \E i \in 1..Len(text) : text[i] = PromptNext

\* C1: whenever let_user_select has returned, the returned index satisfies
\* 0 <= index < number of entries of the plugins list, for every response,
\* the empty list included.
C1_IndexInBounds ==
    pc = "render_link" =>
        /\ 0 <= selected_plugin_number
        /\ selected_plugin_number < Len(wp_request.plugins)

\* C2: with total > 0 plugins, after any preceding "n" or invalid inputs, a
\* typed decimal number k in 1..total ends the selection with index k - 1,
\* an empty line ends it with index 0, and a decimal number outside 1..total
\* does not end it and raises nothing: the invalid-input notice is printed
\* and the prompt shown again.
C2_NumberSelects ==
    (LineRead /\ howmany > 0) =>
        /\ strip(typed) = <<>> =>
            /\ pc \in {"render_link", "copy", "exit"}
            /\ selected_plugin_number = 0
            /\ raised = ""
        /\ \A k \in 0..(MaxPlugins + 1) :
            (strip(typed) = str(k) \/ strip(typed) = <<"0">> \o str(k)) =>
                IF 1 <= k /\ k <= howmany
                THEN /\ pc \in {"render_link", "copy", "exit"}
                     /\ selected_plugin_number = k - 1
                     /\ raised = ""
                ELSE /\ pc = "prompt"
                     /\ selected_plugin_number = NoNumber
                     /\ printed = <<InvalidNotice, prompt>>
                     /\ raised = ""

\* C2's case: after an "n" and an invalid input, 12 is typed and entry 11
\* (zero-based) is selected.
C2_Witness ==
    /\ pc = "render_link"
    /\ n_count >= 1
    /\ passes >= 4
    /\ typed = <<"1", "2">>
    /\ selected_plugin_number = 11

\* C3: a run that ends by a network failure or by "q" at any prompt exits
\* with status 1, has issued exactly one HTTP GET, and has rendered, printed
\* and copied no link; no run issues more than one GET.
C3_FailureIsTotal ==
    /\ gets <= 1
    /\ (pc = "exit" /\ gets > 0 /\ reply.kind \in FailureKinds) =>
        /\ exit_status = 1
        /\ gets = 1
        /\ link = <<>>
        /\ clipboard = <<>>
        /\ printed = <<Diagnostic(reply.kind)>>
    /\ (pc = "exit" /\ LineRead /\ strip(typed) = <<"q">>) =>
        /\ exit_status = 1
        /\ gets = 1
        /\ link = <<>>
        /\ clipboard = <<>>
        /\ printed = <<AbortNotice>>

\* C3's case: "q" after an "n" and an invalid input.
C3_Witness ==
    /\ pc = "exit"
    /\ strip(typed) = <<"q">>
    /\ n_count >= 1
    /\ passes >= 4
    /\ ~only_n

\* C4: an invalid input leaves the selector in the same state: the page the
\* next "n" will display and the prompt's variant are what they were before
\* the invalid input.
C4_InvalidKeepsState ==
    [][(pc = "prompt" /\ pc' = "prompt" /\ printed' = <<InvalidNotice, prompt'>>) =>
            /\ list_plugins(wp_request, window_start(passes' + 1), window_stop(passes' + 1))
                 = list_plugins(wp_request, window_start(passes + 1), window_stop(passes + 1))
            /\ OffersNext(prompt') = OffersNext(prompt)]_vars

\* C5: at every prompt (here: reached by "n" inputs alone), the "[n] for
\* next 10 plugins" instruction is shown exactly when a further "n" would
\* still display at least one entry.
C5_NextOfferedIffEntriesRemain ==
    (InSelector /\ only_n) =>
        (OffersNext(prompt) <=> window_start(passes + 1) < howmany)

\* C6 as stated: the link is exactly '<a href="' + base URL + slug + '/">' +
\* decoded name + '</a>'.
C6_LinkIsBareAnchor ==
    (pc \in {"copy", "exit"} /\ link # <<>>) =>
        link = <<"<a href=\"", "https://de.wordpress.org/plugins/">>
                   \o wp_request.plugins[selected_plugin_number + 1].slug
                   \o <<"/\">">>
                   \o DecodedPool[PoolIndex(selected_plugin_number + 1)]
                   \o <<"</a>">>

\* C6 as amended: the link is exactly '<a href="' + base URL + slug +
\* '/"><b>' + decoded name + '</b></a>': the anchor's content is the decoded,
\* untruncated name in a <b> element.
C6_LinkIsBoldAnchor ==
    (pc \in {"copy", "exit"} /\ link # <<>>) =>
        link = <<"<a href=\"", "https://de.wordpress.org/plugins/">>
                   \o wp_request.plugins[selected_plugin_number + 1].slug
                   \o <<"/\">", "<b>">>
                   \o DecodedPool[PoolIndex(selected_plugin_number + 1)]
                   \o <<"</b>", "</a>">>

\* C6's case: the tenth entry, whose 63-character name holds an entity, has
\* been rendered and copied.
C6_Witness ==
    /\ pc = "exit"
    /\ selected_plugin_number = 9
    /\ link # <<>>
    /\ clipboard = link

\* C7 as stated: with the positional argument missing the process ends with
\* exit status 1 after the usage text, before any GET or prompt.
C7_MissingArgumentExits1 ==
    (argv = <<>> /\ pc # "validate_arguments") =>
        /\ pc = "exit"
        /\ exit_status = 1
        /\ printed = <<UsageError>>
        /\ gets = 0
        /\ prompt = <<>>

\* C7 as amended: with the positional argument missing the process ends with
\* exit status 2 after the usage text, before any GET or prompt.
C7_MissingArgumentExits2 ==
    (argv = <<>> /\ pc # "validate_arguments") =>
        /\ pc = "exit"
        /\ exit_status = 2
        /\ printed = <<UsageError>>
        /\ raised = ""
        /\ gets = 0
        /\ prompt = <<>>

\* C7's case: the run without arguments has ended.
C7_Witness == argv = <<>> /\ pc = "exit"

\* C8: the search term sent as request[search] has no leading or trailing
\* whitespace and no upper-case letter.
C8_SearchTermNormalized ==
    gets > 0 =>
        /\ search_param = <<>> \/
              (Head(search_param) # " " /\ search_param[Len(search_param)] # " ")
        /\ \A i \in 1..Len(search_param) : search_param[i] \notin {"A", "B"}

\* C9: for every 0 <= start <= stop, list_plugins(list, start, stop) has
\* max(0, min(stop, len) - start) lines, in list order, the j-th with ordinal
\* start + j and the name of entry start + j - 1, and that ordinal is the
\* number that selects the entry; so has every page the selector printed.
C9_ListingLines ==
    /\ pc = "let_user_select" /\ wp_request.has_plugins =>
        \A s \in 0..(Len(wp_request.plugins) + 1) :
            \A t \in s..(Len(wp_request.plugins) + 2) :
                ListingOf(list_plugins(wp_request, s, t), wp_request.plugins, s, t)
    /\ InSelector /\ ~LineRead => ListingOf(page, wp_request.plugins, 0, 10)
    /\ InSelector /\ LineRead /\ strip(typed) = <<"n">> =>
        ListingOf(page, wp_request.plugins, start, stop)
    /\ (pc = "render_link" /\ strip(typed) # <<>>) =>
        strip(typed) \in {str(selected_plugin_number + 1),
                          <<"0">> \o str(selected_plugin_number + 1)}

\* C9's case: the second page of a list of 12, with its two lines 11 and 12.
C9_Witness ==
    /\ InSelector
    /\ howmany = 12
    /\ start = 10
    /\ strip(typed) = <<"n">>
    /\ Len(Lines(page)) = 2

\* C10: under "n" inputs alone the k-th "n" displays exactly the existing
\* entries with indices in [10k, 10k+10) (the first page is k = 0), an empty
\* page body once the end is passed, and the selector prompts again without
\* ending or raising.
C10_NextPages ==
    (wp_request.has_plugins /\ only_n /\ pc # "let_user_select") =>
        /\ pc = "prompt"
        /\ raised = ""
        /\ ListingOf(page, wp_request.plugins, 10 * n_count, 10 * n_count + 10)
        /\ (10 * n_count >= howmany => page = <<"\n">>)
        /\ printed = <<page, prompt>>

\* C10's case: the fourth "n" on a list of 31, past the end of the list.
C10_Witness ==
    /\ pc = "prompt"
    /\ only_n
    /\ n_count = 4
    /\ howmany = 31
    /\ page = <<"\n">>

====
